---- MODULE Spec2Model ----
(***************************************************************************)
(* firmware_variables: the EFI device-path codec (device_path.py) and the  *)
(* boot orchestration (boot.py), as state machines.                        *)
(*                                                                         *)
(* Bytes are integers 0..255, byte strings are sequences of them, indexed  *)
(* from 1 here and from 0 in the Python source (Slice converts).           *)
(***************************************************************************)
EXTENDS Integers, Sequences, FiniteSets, TLC

VARIABLES
    raw,        \* from_bytes: the buffer being decoded
    offset,     \* from_bytes: the loop's offset
    paths,      \* DevicePathList.paths
    pc,         \* "loop" (inside from_bytes), "raised", "ready" (list returned)
    err,        \* the exception from_bytes ended with, or "none"
    ret,        \* the last method call on the list and what it returned
    hdrs,       \* history: the header each decoded node was built from
    mutated,    \* history: the list was changed after from_bytes returned
    lastSet,    \* history: argument of the last successful set_hard_drive_node
    uefi,       \* platform: verify_uefi_firmware passes
    store,      \* the firmware variable store: name -> payload or Absent
    bret,       \* boot.py: the last operation and how it ended
    log,        \* history: the collaborator calls the last operation made, in order
    lastOrder   \* history: argument of the last successful set_boot_order

dpvars == <<raw, offset, paths, pc, err, ret, hdrs, mutated, lastSet>>
bootvars == <<uefi, store, bret, log, lastOrder>>
vars == <<raw, offset, paths, pc, err, ret, hdrs, mutated, lastSet,
          uefi, store, bret, log, lastOrder>>

(***************************************************************************)
(* Bounds of the model.                                                    *)
(***************************************************************************)
MaxLen == 5      \* longest buffer drawn byte by byte from Alphabet
MaxNodes == 2    \* most library nodes concatenated into one buffer
MaxPaths == 3    \* longest list the constructor action grows
MaxIds == 3      \* longest boot order passed to set_boot_order

\* Byte values the free buffers are drawn from: known and unknown types,
\* subtypes registered for some types only, lengths below, at and above 4.
Alphabet == {0, 1, 2, 4, 5, 255}

\* Optional values: None is the empty sequence, a value v is <<v>>.
None == <<>>
Some(v) == <<v>>

(***************************************************************************)
(* Python helpers.                                                         *)
(***************************************************************************)
Min(a, b) == IF a < b THEN a ELSE b

\* s[a:b] for 0 <= a, 0 <= b
Slice(s, a, b) ==
    LET lo == Min(a, Len(s))
        hi == Min(b, Len(s))
    IN IF hi <= lo THEN <<>> ELSE SubSeq(s, lo + 1, hi)

\* v.to_bytes(n, "little"), for 0 <= v < 256^n
RECURSIVE to_bytes_little(_, _)
to_bytes_little(v, n) ==
    IF n = 0 THEN <<>> ELSE <<v % 256>> \o to_bytes_little(v \div 256, n - 1)

\* int.from_bytes(s, "little")
RECURSIVE from_bytes_little(_)
from_bytes_little(s) ==
    IF s = <<>> THEN 0 ELSE s[1] + 256 * from_bytes_little(Tail(s))

RECURSIVE Concat(_)
Concat(ss) == IF ss = <<>> THEN <<>> ELSE ss[1] \o Concat(Tail(ss))

(***************************************************************************)
(* device_path.py: the enumerations.                                       *)
(***************************************************************************)
EFI_DEVICE_PATH_size == 4

HARDWARE_DEVICE_PATH == 1
ACPI_DEVICE_PATH == 2
MESSAGING_DEVICE_PATH == 3
MEDIA_DEVICE_PATH == 4
BIOS_BOOT_SPECIFICATION_DEVICE_PATH == 5
END_OF_HARDWARE_DEVICE_PATH == 127

DevicePathType ==
    {HARDWARE_DEVICE_PATH, ACPI_DEVICE_PATH, MESSAGING_DEVICE_PATH,
     MEDIA_DEVICE_PATH, BIOS_BOOT_SPECIFICATION_DEVICE_PATH,
     END_OF_HARDWARE_DEVICE_PATH}

HardwareDevicePathSubtype == 1..6
AcpiDevicePathSubtype == 1..4
MessagingDevicePathSubtype == (1..6) \cup (9..32)
MediaDevicePathSubtype == 1..9
BiosBootSpecificationDevicePathSubtype == {1}
EndOfHardwareDevicePathSubtype == {1, 255}

HARD_DRIVE == 1
FILE_PATH == 4

\* The name of the subtype enumeration registered for a type.
SUBTYPES_MAPPING(t) ==
    CASE t = HARDWARE_DEVICE_PATH -> "HardwareDevicePathSubtype"
      [] t = ACPI_DEVICE_PATH -> "AcpiDevicePathSubtype"
      [] t = MESSAGING_DEVICE_PATH -> "MessagingDevicePathSubtype"
      [] t = MEDIA_DEVICE_PATH -> "MediaDevicePathSubtype"
      [] t = BIOS_BOOT_SPECIFICATION_DEVICE_PATH ->
             "BiosBootSpecificationDevicePathSubtype"
      [] t = END_OF_HARDWARE_DEVICE_PATH -> "EndOfHardwareDevicePathSubtype"

\* The values of a subtype enumeration.
EnumValues(e) ==
    CASE e = "HardwareDevicePathSubtype" -> HardwareDevicePathSubtype
      [] e = "AcpiDevicePathSubtype" -> AcpiDevicePathSubtype
      [] e = "MessagingDevicePathSubtype" -> MessagingDevicePathSubtype
      [] e = "MediaDevicePathSubtype" -> MediaDevicePathSubtype
      [] e = "BiosBootSpecificationDevicePathSubtype" ->
             BiosBootSpecificationDevicePathSubtype
      [] e = "EndOfHardwareDevicePathSubtype" -> EndOfHardwareDevicePathSubtype

\* A mutant of SubtypeLookup: one flat enumeration of subtypes.
SubtypeLookupFlat(t, s) ==
    IF s \in (1..32) \cup {255}
    THEN [ok |-> TRUE, subtype |-> [enum |-> SUBTYPES_MAPPING(t), value |-> s]]
    ELSE [ok |-> FALSE, subtype |-> [enum |-> "", value |-> s]]

\* SUBTYPES_MAPPING[self.path_type](subtype): the member, or ValueError
SubtypeLookup(t, s) ==
    IF s \in EnumValues(SUBTYPES_MAPPING(t))
    THEN [ok |-> TRUE, subtype |-> [enum |-> SUBTYPES_MAPPING(t), value |-> s]]
    ELSE [ok |-> FALSE, subtype |-> [enum |-> "", value |-> s]]

\* DevicePath.__init__: the node, or the exception it raises
DevicePath(path_type, subtype, data) ==
    IF path_type \notin DevicePathType
    THEN [exc |-> "ValueError"]
    ELSE LET st == SubtypeLookup(path_type, subtype)
         IN IF ~st.ok
            THEN [exc |-> "ValueError"]
            ELSE [exc |-> "none",
                  node |-> [path_type |-> path_type, subtype |-> st.subtype,
                            data |-> data]]


is_hard_drive(self) ==
    /\ self.path_type = MEDIA_DEVICE_PATH
    /\ self.subtype = [enum |-> "MediaDevicePathSubtype", value |-> HARD_DRIVE]

is_file_path(self) ==
    /\ self.path_type = MEDIA_DEVICE_PATH
    /\ self.subtype = [enum |-> "MediaDevicePathSubtype", value |-> FILE_PATH]

HexDigits == <<"0", "1", "2", "3", "4", "5", "6", "7",
               "8", "9", "a", "b", "c", "d", "e", "f">>

\* Two lowercase hex digits of a byte, as '%02x' gives them.
Hex2(b) == <<HexDigits[(b \div 16) + 1], HexDigits[(b % 16) + 1]>>

\* str(uuid.UUID(bytes_le=sig)): the first three fields byte-reversed, the
\* rest in order, printed as 8-4-4-4-12 lowercase hex digits.
uuid_str_bytes_le(sig) ==
    LET b == <<sig[4], sig[3], sig[2], sig[1], sig[6], sig[5], sig[8], sig[7],
               sig[9], sig[10], sig[11], sig[12], sig[13], sig[14], sig[15],
               sig[16]>>
        hex(i, j) == Concat([k \in 1..(j - i + 1) |-> Hex2(b[i + k - 1])])
    IN hex(1, 4) \o <<"-">> \o hex(5, 6) \o <<"-">> \o hex(7, 8) \o <<"-">>
       \o hex(9, 10) \o <<"-">> \o hex(11, 16)

\* A mutant of DevicePath_get_hard_drive_node: the GUID is derived whatever
\* partition_format and signature_type are.
DevicePath_get_hard_drive_node_ungated(self) ==
    IF ~is_hard_drive(self) THEN None
    ELSE IF Len(self.data) < 38 THEN None
    ELSE LET data == self.data
             signature == Slice(data, 20, 36)
         IN Some([partition_number |-> from_bytes_little(Slice(data, 0, 4)),
                  partition_start_lba |-> from_bytes_little(Slice(data, 4, 12)),
                  partition_size_lba |-> from_bytes_little(Slice(data, 12, 20)),
                  partition_signature |-> signature,
                  partition_guid |-> Some(uuid_str_bytes_le(signature)),
                  partition_format |-> data[37],
                  signature_type |-> data[38]])

\* DevicePath.get_hard_drive_node
DevicePath_get_hard_drive_node(self) ==
    IF ~is_hard_drive(self) THEN None
    ELSE IF Len(self.data) < 38 THEN None
    ELSE LET data == self.data
             signature == Slice(data, 20, 36)
             partition_format == data[37]
             signature_type == data[38]
             guid == IF /\ partition_format = 2
                        /\ signature_type = 2
                        /\ Len(signature) = 16
                     THEN Some(uuid_str_bytes_le(signature))
                     ELSE None
         IN Some([partition_number |-> from_bytes_little(Slice(data, 0, 4)),
                  partition_start_lba |-> from_bytes_little(Slice(data, 4, 12)),
                  partition_size_lba |-> from_bytes_little(Slice(data, 12, 20)),
                  partition_signature |-> signature,
                  partition_guid |-> guid,
                  partition_format |-> partition_format,
                  signature_type |-> signature_type])

\* The payload set_hard_drive_node builds from a HardDriveNode.
HardDriveData(node) ==
    to_bytes_little(node.partition_number, 4)
    \o to_bytes_little(node.partition_start_lba, 8)
    \o to_bytes_little(node.partition_size_lba, 8)
    \o node.partition_signature
    \o <<node.partition_format, node.signature_type>>

\* DevicePath.set_hard_drive_node: the flag returned and the node afterwards
DevicePath_set_hard_drive_node(self, node) ==
    IF ~is_hard_drive(self)
    THEN [ok |-> FALSE, self |-> self]
    ELSE [ok |-> TRUE, self |-> [self EXCEPT !.data = HardDriveData(node)]]

\* utils.utf16_string_from_bytes: the UTF-16LE code units of the payload, a
\* single trailing null terminator stripped if present.
utf16_string_from_bytes(data) ==
    LET n == Len(data) \div 2
        units == [i \in 1..n |-> data[2 * i - 1] + 256 * data[2 * i]]
    IN IF n > 0 /\ units[n] = 0 THEN SubSeq(units, 1, n - 1) ELSE units

\* utils.string_to_utf16_bytes: the text's UTF-16LE bytes and one terminator.
string_to_utf16_bytes(text) ==
    Concat([i \in 1..Len(text) |-> <<text[i] % 256, text[i] \div 256>>])
    \o <<0, 0>>

\* DevicePath.get_file_path
DevicePath_get_file_path(self) ==
    IF ~is_file_path(self) THEN None
    ELSE Some(utf16_string_from_bytes(self.data))

\* DevicePath.set_file_path
DevicePath_set_file_path(self, file_path) ==
    IF ~is_file_path(self)
    THEN [ok |-> FALSE, self |-> self]
    ELSE [ok |-> TRUE,
          self |-> [self EXCEPT !.data = string_to_utf16_bytes(file_path)]]

(***************************************************************************)
(* device_path.py: DevicePathList.                                         *)
(***************************************************************************)
\* EFI_DEVICE_PATH.unpack_from(raw, offset), for offset + 4 <= len(raw)
unpack_from(buf, off) ==
    [path_type |-> buf[off + 1], subtype |-> buf[off + 2],
     length |-> buf[off + 3] + 256 * buf[off + 4]]

\* raw[offset + EFI_DEVICE_PATH.size : offset + length]
NodeData(buf, off, length) ==
    Slice(buf, off + EFI_DEVICE_PATH_size, off + length)

\* One iteration of the loop of from_bytes at offset off < len(buf): the
\* exception raised, or the node appended and the next offset.
from_bytes_iteration(buf, off) ==
    IF Len(buf) - off < EFI_DEVICE_PATH_size
    THEN [exc |-> "struct.error"]
    ELSE LET header == unpack_from(buf, off)
             made == DevicePath(header.path_type, header.subtype,
                                NodeData(buf, off, header.length))
         IN IF made.exc # "none"
            THEN [exc |-> made.exc]
            ELSE [exc |-> "none", node |-> made.node, header |-> header,
                  offset |-> off + header.length]

\* A mutant of EncodeNode: the length field counts the payload only.
EncodeNodePayloadLength(path) ==
    <<path.path_type, path.subtype.value,
      Len(path.data) % 256, Len(path.data) \div 256>>
    \o path.data

\* EFI_DEVICE_PATH.pack(type, subtype, size + len(data)) + data, for
\* size + len(data) < 65536
EncodeNode(path) ==
    <<path.path_type, path.subtype.value,
      (EFI_DEVICE_PATH_size + Len(path.data)) % 256,
      (EFI_DEVICE_PATH_size + Len(path.data)) \div 256>>
    \o path.data

\* DevicePathList.to_bytes
to_bytes(ps) == Concat([i \in 1..Len(ps) |-> EncodeNode(ps[i])])

\* The least element of a non-empty set of integers.
Least(S) == CHOOSE i \in S : \A j \in S : i <= j

\* DevicePathList.get_file_path: the first result that is not None
List_get_file_path(ps) ==
    LET hits == {i \in 1..Len(ps) : DevicePath_get_file_path(ps[i]) # None}
    IN IF hits = {} THEN None ELSE DevicePath_get_file_path(ps[Least(hits)])

\* DevicePathList.set_file_path: the first node with is_file_path()
List_set_file_path(ps, file_path) ==
    LET hits == {i \in 1..Len(ps) : is_file_path(ps[i])}
    IN IF hits = {} THEN [ok |-> FALSE, paths |-> ps]
       ELSE LET i == Least(hits)
                done == DevicePath_set_file_path(ps[i], file_path)
            IN [ok |-> done.ok, paths |-> [ps EXCEPT ![i] = done.self]]

\* DevicePathList.get_hard_drive_node: the first result that is truthy
List_get_hard_drive_node(ps) ==
    LET hits == {i \in 1..Len(ps) : DevicePath_get_hard_drive_node(ps[i]) # None}
    IN IF hits = {} THEN None
       ELSE DevicePath_get_hard_drive_node(ps[Least(hits)])

\* DevicePathList.set_hard_drive_node: the first node with is_hard_drive()
List_set_hard_drive_node(ps, node) ==
    LET hits == {i \in 1..Len(ps) : is_hard_drive(ps[i])}
    IN IF hits = {} THEN [ok |-> FALSE, paths |-> ps]
       ELSE LET i == Least(hits)
                done == DevicePath_set_hard_drive_node(ps[i], node)
            IN [ok |-> done.ok, paths |-> [ps EXCEPT ![i] = done.self]]

\* DevicePathList.from_bytes run to its end: the list, or the exception. A
\* loop that does not advance ends when memory does.
RECURSIVE from_bytes(_, _, _)
from_bytes(buf, off, ps) ==
    IF off >= Len(buf) THEN [exc |-> "none", paths |-> ps]
    ELSE IF Len(ps) > Len(buf) THEN [exc |-> "MemoryError"]
    ELSE LET it == from_bytes_iteration(buf, off)
         IN IF it.exc # "none" THEN [exc |-> it.exc]
            ELSE from_bytes(buf, it.offset, Append(ps, it.node))

(***************************************************************************)
(* load_option.py: LoadOption, u32 attributes | u16 length of the device   *)
(* path | description, UTF-16LE and null-terminated | device path |        *)
(* optional data.                                                          *)
(***************************************************************************)
LoadOption_to_bytes(option) ==
    LET device_path == to_bytes(option.device_path)
    IN to_bytes_little(option.attributes, 4)
       \o to_bytes_little(Len(device_path), 2)
       \o string_to_utf16_bytes(option.description)
       \o device_path
       \o option.optional_data

LoadOption_from_bytes(buf) ==
    IF Len(buf) < 6 THEN [exc |-> "MalformedLoadOption"]
    ELSE LET length == from_bytes_little(Slice(buf, 4, 6))
             nulls == {i \in 0..((Len(buf) - 6) \div 2 - 1) :
                          buf[6 + 2 * i + 1] = 0 /\ buf[6 + 2 * i + 2] = 0}
         IN IF nulls = {} THEN [exc |-> "MalformedLoadOption"]
            ELSE LET start == 6 + 2 * Least(nulls) + 2
                     text == utf16_string_from_bytes(Slice(buf, 6, start))
                 IN IF Len(buf) - start < length
                    THEN [exc |-> "MalformedLoadOption"]
                    ELSE LET list == from_bytes(Slice(buf, start, start + length),
                                                0, <<>>)
                         IN IF list.exc # "none" THEN [exc |-> list.exc]
                            ELSE [exc |-> "none",
                                  option |->
                                    [attributes |-> from_bytes_little(Slice(buf, 0, 4)),
                                     description |-> text,
                                     device_path |-> list.paths,
                                     optional_data |->
                                       Slice(buf, start + length, Len(buf))]]

(***************************************************************************)
(* boot.py and its collaborators.                                          *)
(***************************************************************************)
HexUpper == <<"0", "1", "2", "3", "4", "5", "6", "7",
              "8", "9", "A", "B", "C", "D", "E", "F">>

RECURSIVE HexOf(_)
HexOf(v) ==
    IF v < 16 THEN <<HexUpper[v + 1]>>
    ELSE HexOf(v \div 16) \o <<HexUpper[(v % 16) + 1]>>

RECURSIVE ZeroPad(_, _)
ZeroPad(digits, width) ==
    IF Len(digits) >= width THEN digits ELSE ZeroPad(<<"0">> \o digits, width)

\* "{:04X}".format(v): the sign counts in the width of 4.
Format04X(v) ==
    IF v < 0 THEN <<"-">> \o ZeroPad(HexOf(-v), 3) ELSE ZeroPad(HexOf(v), 4)

\* Variable names, as the pieces they are formatted from.
BootOrderName == <<"BootOrder">>
BootNextName == <<"BootNext">>
BootEntryName(entry_id) == <<"Boot">> \o Format04X(entry_id)

\* A collaborator call, as the log keeps it.
Called(what, name, outcome) == [call |-> what, name |-> name, outcome |-> outcome]

\* utils.verify_uefi_firmware: the exception it raises, or "none"
verify_uefi_firmware(fw) == IF fw THEN "none" ELSE "UnsupportedFirmware"

\* variables.get_variable: the payload, or the store's not-found or
\* access-denied signal (deny: the store refuses this call).
get_variable(st, name, deny) ==
    IF deny THEN [exc |-> "AccessDenied"]
    ELSE IF st[name] = None THEN [exc |-> "NotFound"]
    ELSE [exc |-> "none", raw |-> st[name][1]]

\* variables.set_variable: the store afterwards, or access denied
set_variable(st, name, payload, deny) ==
    IF deny THEN [exc |-> "AccessDenied", store |-> st]
    ELSE [exc |-> "none", store |-> [st EXCEPT ![name] = Some(payload)]]

\* A mutant of pack_h: big-endian.
pack_h_big_endian(v) ==
    IF v < -32768 \/ v > 32767 THEN [exc |-> "struct.error"]
    ELSE LET u == IF v < 0 THEN v + 65536 ELSE v
         IN [exc |-> "none", raw |-> <<u \div 256, u % 256>>]

\* struct.pack("<h", v)
pack_h(v) ==
    IF v < -32768 \/ v > 32767 THEN [exc |-> "struct.error"]
    ELSE LET u == IF v < 0 THEN v + 65536 ELSE v
         IN [exc |-> "none", raw |-> <<u % 256, u \div 256>>]

\* One signed 16-bit little-endian value.
unpack_h_value(lo, hi) ==
    LET u == lo + 256 * hi IN IF u >= 32768 THEN u - 65536 ELSE u

\* struct.unpack("<h", raw): exactly 2 bytes
unpack_h(payload) ==
    IF Len(payload) # 2 THEN [exc |-> "struct.error"]
    ELSE [exc |-> "none", val |-> unpack_h_value(payload[1], payload[2])]

\* utils.iter_unpack("<h", raw): every 2 bytes a value
iter_unpack_h(payload) ==
    IF Len(payload) % 2 # 0 THEN [exc |-> "struct.error"]
    ELSE [exc |-> "none",
          val |-> [i \in 1..(Len(payload) \div 2) |->
                     unpack_h_value(payload[2 * i - 1], payload[2 * i])]]

\* How an operation ends: exception or "none", value returned, collaborator
\* calls made in order, the store afterwards.
Ended(exc, val, calls, st) == [exc |-> exc, val |-> val, log |-> calls, store |-> st]

VerifyCalled(fw) == Called("verify_uefi_firmware", <<>>, verify_uefi_firmware(fw))

\* A mutant of get_boot_order: the variable is read before the firmware check.
get_boot_order_read_first(st, fw, deny) ==
    LET got == get_variable(st, BootOrderName, deny)
        calls == <<Called("get_variable", BootOrderName, got.exc), VerifyCalled(fw)>>
    IN IF got.exc # "none" THEN Ended(got.exc, None, <<calls[1]>>, st)
       ELSE IF verify_uefi_firmware(fw) # "none"
       THEN Ended(verify_uefi_firmware(fw), None, calls, st)
       ELSE LET ids == iter_unpack_h(got.raw)
            IN IF ids.exc # "none" THEN Ended(ids.exc, None, calls, st)
               ELSE Ended("none", ids.val, calls, st)

get_boot_order(st, fw, deny) ==
    IF verify_uefi_firmware(fw) # "none"
    THEN Ended(verify_uefi_firmware(fw), None, <<VerifyCalled(fw)>>, st)
    ELSE LET got == get_variable(st, BootOrderName, deny)
             calls == <<VerifyCalled(fw),
                        Called("get_variable", BootOrderName, got.exc)>>
         IN IF got.exc # "none" THEN Ended(got.exc, None, calls, st)
            ELSE LET ids == iter_unpack_h(got.raw)
                 IN IF ids.exc # "none" THEN Ended(ids.exc, None, calls, st)
                    ELSE Ended("none", ids.val, calls, st)

set_boot_order(st, fw, deny, entry_ids) ==
    IF verify_uefi_firmware(fw) # "none"
    THEN Ended(verify_uefi_firmware(fw), None, <<VerifyCalled(fw)>>, st)
    ELSE IF \E i \in 1..Len(entry_ids) : pack_h(entry_ids[i]).exc # "none"
    THEN Ended("struct.error", None, <<VerifyCalled(fw)>>, st)
    ELSE LET payload == Concat([i \in 1..Len(entry_ids) |-> pack_h(entry_ids[i]).raw])
             done == set_variable(st, BootOrderName, payload, deny)
         IN Ended(done.exc, None,
                  <<VerifyCalled(fw), Called("set_variable", BootOrderName, done.exc)>>,
                  done.store)

get_boot_entry(st, fw, deny, entry_id) ==
    IF verify_uefi_firmware(fw) # "none"
    THEN Ended(verify_uefi_firmware(fw), None, <<VerifyCalled(fw)>>, st)
    ELSE LET got == get_variable(st, BootEntryName(entry_id), deny)
             calls == <<VerifyCalled(fw),
                        Called("get_variable", BootEntryName(entry_id), got.exc)>>
         IN IF got.exc # "none" THEN Ended(got.exc, None, calls, st)
            ELSE Ended("none", got.raw, calls, st)

get_parsed_boot_entry(st, fw, deny, entry_id) ==
    LET got == get_boot_entry(st, fw, deny, entry_id)
    IN IF got.exc # "none" THEN got
       ELSE LET parsed == LoadOption_from_bytes(got.val)
            IN IF parsed.exc # "none" THEN Ended(parsed.exc, None, got.log, st)
               ELSE Ended("none", parsed.option, got.log, st)

set_boot_entry(st, fw, deny, entry_id, payload) ==
    IF verify_uefi_firmware(fw) # "none"
    THEN Ended(verify_uefi_firmware(fw), None, <<VerifyCalled(fw)>>, st)
    ELSE LET done == set_variable(st, BootEntryName(entry_id), payload, deny)
         IN Ended(done.exc, None,
                  <<VerifyCalled(fw),
                    Called("set_variable", BootEntryName(entry_id), done.exc)>>,
                  done.store)

set_parsed_boot_entry(st, fw, deny, entry_id, load_option) ==
    set_boot_entry(st, fw, deny, entry_id, LoadOption_to_bytes(load_option))

get_boot_next(st, fw, deny) ==
    IF verify_uefi_firmware(fw) # "none"
    THEN Ended(verify_uefi_firmware(fw), None, <<VerifyCalled(fw)>>, st)
    ELSE LET got == get_variable(st, BootNextName, deny)
             calls == <<VerifyCalled(fw),
                        Called("get_variable", BootNextName, got.exc)>>
         IN IF got.exc # "none" THEN Ended("none", None, calls, st)
            ELSE LET id == unpack_h(got.raw)
                 IN IF id.exc # "none" THEN Ended("none", None, calls, st)
                    ELSE Ended("none", Some(id.val), calls, st)

set_boot_next(st, fw, deny, entry_id) ==
    IF verify_uefi_firmware(fw) # "none"
    THEN Ended(verify_uefi_firmware(fw), None, <<VerifyCalled(fw)>>, st)
    ELSE LET packed == pack_h(entry_id)
         IN IF packed.exc # "none"
            THEN Ended(packed.exc, None, <<VerifyCalled(fw)>>, st)
            ELSE LET done == set_variable(st, BootNextName, packed.raw, deny)
                 IN Ended(done.exc, None,
                          <<VerifyCalled(fw),
                            Called("set_variable", BootNextName, done.exc)>>,
                          done.store)

(***************************************************************************)
(* Inputs of the device-path codec.                                        *)
(***************************************************************************)
SigA == <<17, 34, 51, 68, 85, 102, 119, 136,
          153, 170, 187, 204, 221, 238, 255, 1>>
SigB == <<1, 2, 3, 4, 5, 6, 7, 8, 9, 10, 11, 12, 13, 14, 15, 16>>
SigShort == <<1, 2, 3, 4, 5, 6, 7, 8>>

\* Hard-drive payloads found in firmware data: 38 bytes each.
PayloadA ==
    <<4, 3, 2, 1>> \o <<0, 8, 0, 0, 0, 0, 0, 0>>
    \o <<239, 205, 171, 0, 0, 0, 0, 0>> \o SigA \o <<2, 2>>
PayloadB ==
    <<2, 0, 0, 0>> \o <<0, 0, 16, 0, 0, 0, 0, 0>>
    \o <<1, 0, 0, 0, 0, 0, 0, 0>> \o SigB \o <<1, 1>>

\* Encoded nodes the longer buffers are concatenated from: two hard-drive
\* nodes, a hard-drive node with a short payload, a file-path node ("A"),
\* an End-of-Path node, a node whose subtype is not registered for its type,
\* and a node that declares more bytes than follow it.
NodeLib ==
    {<<4, 1, 42, 0>> \o PayloadA,
     <<4, 1, 42, 0>> \o PayloadB,
     <<4, 1, 6, 0, 9, 9>>,
     <<4, 4, 8, 0, 65, 0, 0, 0>>,
     <<127, 255, 4, 0>>,
     <<2, 5, 4, 0>>,
     <<4, 1, 8, 0, 7>>}

FreeBuffers == UNION {[1..n -> Alphabet] : n \in 0..MaxLen}
LibBuffers == {Concat(ns) : ns \in UNION {[1..k -> NodeLib] : k \in 0..MaxNodes}}
Buffers == FreeBuffers \cup LibBuffers

\* Arguments of set_hard_drive_node: in-range fields (values below 2^31),
\* signatures of 16 bytes and of 8, every format/type pairing over {1, 2}.
HardDriveNodes ==
    {[partition_number |-> 16909060,
      partition_start_lba |-> 2048,
      partition_size_lba |-> 11259375,
      partition_signature |-> sg,
      partition_guid |-> None,
      partition_format |-> f,
      signature_type |-> st] :
        sg \in {SigA, SigShort}, f \in {1, 2}, st \in {1, 2}}

\* Arguments of set_file_path: "" and "\E" as UTF-16 code units.
FilePaths == {<<>>, <<92, 69>>}

\* Arguments of the constructor: <<path_type, subtype, data>>.
CtorArgs ==
    {<<4, 1, <<9, 9>>>>, <<4, 1, PayloadB>>, <<127, 255, <<>>>>,
     <<9, 1, <<>>>>, <<1, 255, <<>>>>}

(***************************************************************************)
(* The device-path codec as a state machine: from_bytes runs its loop one  *)
(* iteration per step, then the caller uses the list it returned.          *)
(***************************************************************************)
BootIdle ==
    /\ uefi = TRUE
    /\ store = <<>>
    /\ bret = [op |-> "none"]
    /\ log = <<>>
    /\ lastOrder = None

Init ==
    /\ raw \in Buffers
    /\ offset = 0
    /\ paths = <<>>
    /\ pc = "loop"
    /\ err = "none"
    /\ ret = [op |-> "none"]
    /\ hdrs = <<>>
    /\ mutated = FALSE
    /\ lastSet = None
    /\ BootIdle

\* from_bytes: one iteration of the while loop. A loop that does not advance
\* is followed until the list is longer than the buffer.
FromBytesIteration ==
    /\ pc = "loop"
    /\ offset < Len(raw)
    /\ Len(paths) <= Len(raw)
    /\ LET it == from_bytes_iteration(raw, offset)
       IN IF it.exc # "none"
          THEN /\ pc' = "raised"
               /\ err' = it.exc
               /\ UNCHANGED <<offset, paths, hdrs>>
          ELSE /\ paths' = Append(paths, it.node)
               /\ hdrs' = Append(hdrs, it.header)
               /\ offset' = it.offset
               /\ UNCHANGED <<pc, err>>
    /\ UNCHANGED <<raw, ret, mutated, lastSet>>
    /\ UNCHANGED bootvars

\* from_bytes: a loop that does not advance goes on until memory runs out.
FromBytesExhausted ==
    /\ pc = "loop"
    /\ offset < Len(raw)
    /\ Len(paths) > Len(raw)
    /\ pc' = "raised"
    /\ err' = "MemoryError"
    /\ UNCHANGED <<raw, offset, paths, ret, hdrs, mutated, lastSet>>
    /\ UNCHANGED bootvars

\* from_bytes: the loop condition fails and the list is returned.
FromBytesReturn ==
    /\ pc = "loop"
    /\ offset >= Len(raw)
    /\ pc' = "ready"
    /\ UNCHANGED <<raw, offset, paths, err, ret, hdrs, mutated, lastSet>>
    /\ UNCHANGED bootvars

ToBytes ==
    /\ pc = "ready"
    /\ ret' = [op |-> "to_bytes", val |-> to_bytes(paths)]
    /\ UNCHANGED <<raw, offset, paths, pc, err, hdrs, mutated, lastSet>>
    /\ UNCHANGED bootvars

GetHardDriveNode ==
    /\ pc = "ready"
    /\ ret' = [op |-> "get_hard_drive_node", val |-> List_get_hard_drive_node(paths)]
    /\ UNCHANGED <<raw, offset, paths, pc, err, hdrs, mutated, lastSet>>
    /\ UNCHANGED bootvars

SetHardDriveNode ==
    /\ pc = "ready"
    /\ \E node \in HardDriveNodes :
         LET done == List_set_hard_drive_node(paths, node)
         IN /\ paths' = done.paths
            /\ ret' = [op |-> "set_hard_drive_node", val |-> done.ok]
            /\ mutated' = (mutated \/ done.ok)
            /\ lastSet' = IF done.ok THEN Some(node) ELSE lastSet
    /\ UNCHANGED <<raw, offset, pc, err, hdrs>>
    /\ UNCHANGED bootvars

GetFilePath ==
    /\ pc = "ready"
    /\ ret' = [op |-> "get_file_path", val |-> List_get_file_path(paths)]
    /\ UNCHANGED <<raw, offset, paths, pc, err, hdrs, mutated, lastSet>>
    /\ UNCHANGED bootvars

SetFilePath ==
    /\ pc = "ready"
    /\ \E file_path \in FilePaths :
         LET done == List_set_file_path(paths, file_path)
         IN /\ paths' = done.paths
            /\ ret' = [op |-> "set_file_path", val |-> done.ok]
            /\ mutated' = (mutated \/ done.ok)
    /\ UNCHANGED <<raw, offset, pc, err, hdrs, lastSet>>
    /\ UNCHANGED bootvars

\* A list built by hand: DevicePathList(), then the caller builds nodes with
\* the constructor and appends them to paths.
NewDevicePath ==
    /\ pc = "ready"
    /\ raw = <<>>
    /\ Len(paths) < MaxPaths
    /\ \E a \in CtorArgs :
         LET made == DevicePath(a[1], a[2], a[3])
         IN IF made.exc # "none"
            THEN /\ ret' = [op |-> "DevicePath", val |-> made.exc]
                 /\ UNCHANGED <<paths, mutated>>
            ELSE /\ ret' = [op |-> "DevicePath", val |-> "none"]
                 /\ paths' = Append(paths, made.node)
                 /\ mutated' = TRUE
    /\ UNCHANGED <<raw, offset, pc, err, hdrs, lastSet>>
    /\ UNCHANGED bootvars

Next ==
    \/ FromBytesIteration
    \/ FromBytesExhausted
    \/ FromBytesReturn
    \/ ToBytes
    \/ GetHardDriveNode
    \/ SetHardDriveNode
    \/ GetFilePath
    \/ SetFilePath
    \/ NewDevicePath

Spec == Init /\ [][Next]_vars

(***************************************************************************)
(* Properties of the device-path codec.                                    *)
(***************************************************************************)
\* The tags of a header are a known type and a subtype registered for it.
KnownTags(t, st) ==
    /\ t \in DevicePathType
    /\ st \in EnumValues(SUBTYPES_MAPPING(t))

\* b[off:] is a concatenation of nodes, each with known tags and a declared
\* length of at least 4 that ends inside b, the last one ending where b ends.
RECURSIVE ValidFrom(_, _)
ValidFrom(b, off) ==
    IF off = Len(b) THEN TRUE
    ELSE /\ off + 4 <= Len(b)
         /\ KnownTags(b[off + 1], b[off + 2])
         /\ LET length == b[off + 3] + 256 * b[off + 4]
            IN /\ length >= 4
               /\ off + length <= Len(b)
               /\ ValidFrom(b, off + length)

ValidBuffer(b) == ValidFrom(b, 0)

\* C1: decoding a valid device-path buffer never raises, and encoding the
\* decoded list, not mutated in between, gives the buffer back byte for byte.
C1_RoundTrip ==
    ValidBuffer(raw) =>
        /\ pc # "raised"
        /\ (ret.op = "to_bytes" /\ ~mutated) => ret.val = raw

\* C1 witness: a valid buffer of two nodes, one with a payload, was decoded
\* and encoded back.
C1_Witness ==
    /\ ValidBuffer(raw)
    /\ ret.op = "to_bytes"
    /\ ~mutated
    /\ Len(paths) = 2
    /\ Len(paths[1].data) > 0
    /\ ret.val = raw

\* C2 (as claimed): a buffer in which a header reached during decoding
\* declares a length below 4 never yields a decoded list.
C2_ShortLengthNeverDecodes ==
    pc = "ready" => \A i \in 1..Len(hdrs) : hdrs[i].length >= 4

\* C3 (as claimed): a decoded node never has fewer payload bytes than its
\* header declared (a declared length past the buffer's end fails instead).
C3_NoTruncatedNode ==
    (pc = "ready" /\ ~mutated) =>
        \A i \in 1..Len(hdrs) :
            hdrs[i].length >= 4 => Len(paths[i].data) = hdrs[i].length - 4

\* A node's tags: a known type, and a member of the enumeration registered
\* for that type.
WellTagged(p) ==
    /\ p.path_type \in DevicePathType
    /\ p.subtype.enum = SUBTYPES_MAPPING(p.path_type)
    /\ p.subtype.value \in EnumValues(p.subtype.enum)

\* C4: every node of the list, decoded or built by the constructor, is well
\* tagged; a decoded node carries the tags of its header uncoerced; a
\* ValueError from decoding is raised at a header with unknown tags, and a
\* struct.error where fewer than 4 bytes are left.
C4_NodesWellTagged ==
    /\ \A i \in 1..Len(paths) : WellTagged(paths[i])
    /\ \A i \in 1..Len(hdrs) :
          /\ paths[i].path_type = hdrs[i].path_type
          /\ paths[i].subtype.value = hdrs[i].subtype
    /\ (pc = "raised" /\ err = "ValueError") =>
          ~KnownTags(raw[offset + 1], raw[offset + 2])
    /\ (pc = "raised" /\ err = "struct.error") => Len(raw) - offset < 4

\* C4 witness: after a decoded node, decoding failed at a header of a known
\* type whose subtype is registered for another type only.
C4_Witness ==
    /\ pc = "raised"
    /\ err = "ValueError"
    /\ Len(paths) >= 1
    /\ raw[offset + 1] \in DevicePathType
    /\ raw[offset + 2] \notin EnumValues(SUBTYPES_MAPPING(raw[offset + 1]))
    /\ \E t \in DevicePathType : raw[offset + 2] \in EnumValues(SUBTYPES_MAPPING(t))

\* The value of a hex digit.
HexVal(c) == CHOOSE v \in 0..15 : HexDigits[v + 1] = c

\* The 16 bytes a UUID string of 36 characters spells, in the order written.
UuidStringBytes(g) ==
    LET digits == SelectSeq(g, LAMBDA c : c # "-")
    IN [i \in 1..16 |-> 16 * HexVal(digits[2 * i - 1]) + HexVal(digits[2 * i])]

\* C5: after set_hard_drive_node(n) succeeded with a 16-byte signature,
\* get_hard_drive_node returns n's six stored fields; partition_guid is
\* present exactly when (partition_format, signature_type) = (2, 2), and then
\* spells the signature with its first three fields byte-reversed.
C5_HardDriveRoundTrip ==
    (/\ ret.op = "get_hard_drive_node"
     /\ lastSet # None
     /\ Len(lastSet[1].partition_signature) = 16) =>
        /\ ret.val # None
        /\ LET n == lastSet[1]
               got == ret.val[1]
               sig == n.partition_signature
           IN /\ got.partition_number = n.partition_number
              /\ got.partition_start_lba = n.partition_start_lba
              /\ got.partition_size_lba = n.partition_size_lba
              /\ got.partition_signature = n.partition_signature
              /\ got.partition_format = n.partition_format
              /\ got.signature_type = n.signature_type
              /\ (got.partition_guid # None) <=>
                   (n.partition_format = 2 /\ n.signature_type = 2)
              /\ got.partition_guid # None =>
                   /\ Len(got.partition_guid[1]) = 36
                   /\ \A i \in {9, 14, 19, 24} : got.partition_guid[1][i] = "-"
                   /\ UuidStringBytes(got.partition_guid[1]) =
                        <<sig[4], sig[3], sig[2], sig[1], sig[6], sig[5],
                          sig[8], sig[7], sig[9], sig[10], sig[11], sig[12],
                          sig[13], sig[14], sig[15], sig[16]>>

\* C5 witness: a GPT node (2, 2) was set and read back with its GUID.
C5_Witness ==
    /\ ret.op = "get_hard_drive_node"
    /\ lastSet # None
    /\ Len(lastSet[1].partition_signature) = 16
    /\ lastSet[1].partition_format = 2
    /\ lastSet[1].signature_type = 2
    /\ ret.val # None
    /\ ret.val[1].partition_guid # None

\* C9 (as claimed): every iteration of the loop of from_bytes that does not
\* end the decoding moves the offset strictly forward.
C9_OffsetAdvances ==
    [][(pc = "loop" /\ pc' = "loop") => offset' > offset]_vars

\* C10 (as claimed): get_hard_drive_node on the list returns the view of the
\* first node with is_hard_drive(), None when that node's payload is shorter
\* than 38 bytes or there is no such node, and never a later node's view.
C10_GetReadsFirstHardDrive ==
    ret.op = "get_hard_drive_node" =>
        LET hits == {i \in 1..Len(paths) :
                        /\ paths[i].path_type = MEDIA_DEVICE_PATH
                        /\ paths[i].subtype.value = HARD_DRIVE}
        IN IF hits = {} THEN ret.val = None
           ELSE LET first == paths[Least(hits)]
                IN IF Len(first.data) < 38 THEN ret.val = None
                   ELSE ret.val = DevicePath_get_hard_drive_node(first)

(***************************************************************************)
(* The boot orchestration as a state machine: each step is one call of a   *)
(* function of boot.py by the caller, on a platform fixed at the start.    *)
(***************************************************************************)
\* Entry IDs: a negative one, one of two non-zero bytes, and one outside the
\* signed 16-bit range, which struct.pack refuses.
Ids == {-2, 258}
IdLists == UNION {[1..n -> Ids] : n \in 0..MaxIds} \cup {<<258, 40000>>}
EntryIds == {3, 171}
VarNames == {BootOrderName, BootNextName} \cup {BootEntryName(id) : id \in EntryIds}

\* A load option: description "L", a file-path node and an End-of-Path node.
LoadOptions ==
    {[attributes |-> 1,
      description |-> <<76>>,
      device_path |-> <<DevicePath(4, 4, <<65, 0, 0, 0>>).node,
                        DevicePath(127, 255, <<>>).node>>,
      optional_data |-> <<7>>]}

\* Payloads of set_boot_entry: an encoded load option, and two bytes that
\* are none.
EntryPayloads == {LoadOption_to_bytes(option) : option \in LoadOptions} \cup {<<1, 0>>}

\* The store as the firmware left it: empty; a usual one; one whose
\* BootOrder has an odd size and whose BootNext holds two values.
InitialStores ==
    {[n \in VarNames |-> None],
     [n \in VarNames |->
        CASE n = BootOrderName -> Some(<<3, 0, 171, 0>>)
          [] n = BootNextName -> Some(<<3, 0>>)
          [] n = BootEntryName(3) ->
               Some(LoadOption_to_bytes(CHOOSE option \in LoadOptions : TRUE))
          [] OTHER -> None],
     [n \in VarNames |->
        CASE n = BootOrderName -> Some(<<3>>)
          [] n = BootNextName -> Some(<<1, 0, 2, 0>>)
          [] OTHER -> None]}

BootInit ==
    /\ uefi \in BOOLEAN
    /\ store \in InitialStores
    /\ bret = [op |-> "none"]
    /\ log = <<>>
    /\ lastOrder = None
    /\ raw = <<>>
    /\ offset = 0
    /\ paths = <<>>
    /\ pc = "ready"
    /\ err = "none"
    /\ ret = [op |-> "none"]
    /\ hdrs = <<>>
    /\ mutated = FALSE
    /\ lastSet = None

\* The operation ended as r says.
Finish(op, r) ==
    /\ bret' = [op |-> op, exc |-> r.exc, val |-> r.val]
    /\ log' = r.log
    /\ store' = r.store
    /\ UNCHANGED uefi
    /\ UNCHANGED dpvars

GetBootOrder ==
    \E deny \in BOOLEAN :
        /\ Finish("get_boot_order", get_boot_order(store, uefi, deny))
        /\ UNCHANGED lastOrder

SetBootOrder ==
    \E deny \in BOOLEAN, entry_ids \in IdLists :
        LET r == set_boot_order(store, uefi, deny, entry_ids)
        IN /\ Finish("set_boot_order", r)
           /\ lastOrder' = IF r.exc = "none" THEN Some(entry_ids) ELSE lastOrder

GetBootEntry ==
    \E deny \in BOOLEAN, entry_id \in EntryIds :
        /\ Finish("get_boot_entry", get_boot_entry(store, uefi, deny, entry_id))
        /\ UNCHANGED lastOrder

GetParsedBootEntry ==
    \E deny \in BOOLEAN, entry_id \in EntryIds :
        /\ Finish("get_parsed_boot_entry",
                  get_parsed_boot_entry(store, uefi, deny, entry_id))
        /\ UNCHANGED lastOrder

SetBootEntry ==
    \E deny \in BOOLEAN, entry_id \in EntryIds, payload \in EntryPayloads :
        /\ Finish("set_boot_entry",
                  set_boot_entry(store, uefi, deny, entry_id, payload))
        /\ UNCHANGED lastOrder

SetParsedBootEntry ==
    \E deny \in BOOLEAN, entry_id \in EntryIds, load_option \in LoadOptions :
        /\ Finish("set_parsed_boot_entry",
                  set_parsed_boot_entry(store, uefi, deny, entry_id, load_option))
        /\ UNCHANGED lastOrder

GetBootNext ==
    \E deny \in BOOLEAN :
        /\ Finish("get_boot_next", get_boot_next(store, uefi, deny))
        /\ UNCHANGED lastOrder

SetBootNext ==
    \E deny \in BOOLEAN, entry_id \in Ids \cup {40000} :
        /\ Finish("set_boot_next", set_boot_next(store, uefi, deny, entry_id))
        /\ UNCHANGED lastOrder

BootNextStep ==
    \/ GetBootOrder
    \/ SetBootOrder
    \/ GetBootEntry
    \/ GetParsedBootEntry
    \/ SetBootEntry
    \/ SetParsedBootEntry
    \/ GetBootNext
    \/ SetBootNext

BootSpec == BootInit /\ [][BootNextStep]_vars

(***************************************************************************)
(* Properties of the boot orchestration.                                   *)
(***************************************************************************)
StoreCalls == {"get_variable", "set_variable"}

\* C6 (as claimed): get_boot_next returns None only when BootNext is not in
\* the store; every other failure propagates.
C6_NoneOnlyWhenAbsent ==
    (bret.op = "get_boot_next" /\ bret.exc = "none" /\ bret.val = None) =>
        store[BootNextName] = None

\* C7: in every operation the firmware check is called before any call to
\* the store; on a platform that fails the check every operation ends with
\* UnsupportedFirmware, has made no call to the store, and no step changes
\* the store.
C7_VerifyFirst ==
    /\ [](bret.op # "none" =>
            /\ \A i \in 1..Len(log) :
                  log[i].call \in StoreCalls =>
                      \E j \in 1..(i - 1) : log[j].call = "verify_uefi_firmware"
            /\ ~uefi =>
                  /\ bret.exc = "UnsupportedFirmware"
                  /\ \A i \in 1..Len(log) : log[i].call \notin StoreCalls)
    /\ [][~uefi => store' = store]_vars

\* C7 witness: on a platform that fails the check, with variables in the
\* store, set_boot_order ended with UnsupportedFirmware after the check alone.
C7_Witness ==
    /\ ~uefi
    /\ store[BootOrderName] # None
    /\ bret.op = "set_boot_order"
    /\ bret.exc = "UnsupportedFirmware"
    /\ Len(log) = 1
    /\ log[1].call = "verify_uefi_firmware"

\* The payload of a boot order: 2 bytes per ID, two's complement, low byte
\* first.
PackedIds(ids) ==
    Concat([i \in 1..Len(ids) |->
              <<((ids[i] + 65536) % 65536) % 256, ((ids[i] + 65536) % 65536) \div 256>>])

\* C8: once set_boot_order(ids) succeeded, BootOrder holds 2 bytes per ID,
\* little-endian, and get_boot_order returns ids whenever the store answers;
\* set_boot_order calls the store for BootOrder alone and leaves every other
\* variable as it was.
C8_BootOrderRoundTrip ==
    /\ [](lastOrder # None =>
            /\ store[BootOrderName] = Some(PackedIds(lastOrder[1]))
            /\ bret.op = "get_boot_order" =>
                  /\ bret.exc \in {"none", "AccessDenied"}
                  /\ bret.exc = "none" => bret.val = lastOrder[1])
    /\ [](bret.op = "set_boot_order" =>
            \A i \in 1..Len(log) :
                log[i].call \in StoreCalls =>
                    log[i].call = "set_variable" /\ log[i].name = BootOrderName)
    /\ [][bret'.op = "set_boot_order" =>
            \A n \in VarNames \ {BootOrderName} : store'[n] = store[n]]_vars

\* C8 witness: an unsorted boot order with a repeated and a negative ID was
\* set and read back.
C8_Witness ==
    /\ lastOrder = Some(<<258, -2, 258>>)
    /\ bret.op = "get_boot_order"
    /\ bret.exc = "none"
    /\ bret.val = <<258, -2, 258>>
    /\ store[BootOrderName] = Some(<<2, 1, 254, 255, 2, 1>>)
====
